---- MODULE Spec2Model ----
(***************************************************************************)
(* RealTime_Multilingual_Transcriber.                                      *)
(*                                                                         *)
(* Part I   server.py  SentenceBuffer: the per-client word formatter,      *)
(*          called by one or several delivering threads (SpecBuffer).      *)
(* Part II  client.py  AudioStreamer: the capture / reconnect loop of the  *)
(*          client thread, with stop() and set_mute() called from the GUI  *)
(*          thread (SpecStreamer, SpecStreamerFair).                       *)
(* Part III server.py  ClientHandler: the handshake of a session           *)
(*          (SpecHandshake), its SocketStream.read and its cleanup, with   *)
(*          stop() of the listener called from the GUI thread              *)
(*          (SpecSession, SpecSessionFair).                                *)
(* Part IV  server.py  ServerThread: the accept loop, the sessions it      *)
(*          starts, stop(), and the delivery of the sessions' events to    *)
(*          the slots of ServerApp (SpecServer).                           *)
(*                                                                         *)
(* A Python str is a sequence of one-character strings.                    *)
(***************************************************************************)
EXTENDS Integers, Sequences, FiniteSets, TLC

\* ------------------------------------------------------------------ bounds
\* Longest word script the transcription engine delivers to one buffer.
MaxWords == 3
\* Connect attempts, emissions and frames that are told apart (counts saturate).
MaxCount == 3
\* Connections the listener accepts.
MaxClients == 2
\* Transcript / activity events one session emits.
MaxSessionWords == 1

VARIABLES
    \* ---- SentenceBuffer (server.py 66-112)
    new_sentence,   \* self.new_sentence
    lock,           \* self.lock: None or the thread inside `with self.lock`
    emitted,        \* signals.new_transcript emissions, oldest first:
                    \*   [word |-> the argument of the call, text |-> the text]
    calls,          \* arguments of add_word in the order the calls took the lock
    feed,           \* words the engine has still to deliver
    wpc,            \* per delivering thread: idle / wait / emit / update
    arg,            \* per thread: the argument add_word was called with
    word,           \* per thread: the local `word`
    text_to_emit,   \* per thread: the local `text_to_emit`
    flushed,        \* force_flush has been called
    \* ---- AudioStreamer (client.py 60-163)
    running,        \* self.running
    muted,          \* self.muted
    sock,           \* self.sock   is not None
    p,              \* self.p      is not None
    stream,         \* self.stream is not None
    pc,             \* position of the _run thread
    update_counter, \* update_counter, modulo 2 (only its parity is read)
    res,            \* what really became of each resource: none/open/released/leaked
    trace,          \* connect / fail / ok / cleanup / sleep events up to the
                    \*   first successful connect (at most MaxCount attempts)
    gap,            \* cleanup / sleep events since the last connect attempt began
    lastGap,        \* gap as it was when the last connect attempt began
    errorEmits,     \* error_occurred emissions (saturating)
    finishedEmits,  \* finished emissions (saturating)
    lastExc,        \* the last exception raised in the try block, or NoExc
    quiesced,       \* a call of the thread has returned since stop() was called
    lateEvents,     \* handshake/open/frame/connect begun while quiesced
    framesAfterStop,\* frames written while running was False (saturating)
    slept,          \* seconds of the last retry delay taken (0: none yet)
    data,           \* the frame read at line 123 and not yet handled by
                    \*   lines 133-134, as int16 samples (<<>>: none)
    level,          \* <<audio_level emitted for that frame, in 1/32768>>
                    \*   (NoLevel: none)
    frameNo,        \* frames read since the device was opened (saturating)
    hs,             \* handshakes written to the socket of line 98 (saturating)
    handled,        \* <<the frame lines 133-134 have just handled>>, until
                    \*   the loop test that follows (<<>>: none):
                    \*   [no |-> its number, data |-> its samples,
                    \*    muted |-> self.muted at line 133,
                    \*    level |-> a level was emitted for it,
                    \*    sent |-> <<the argument of sendall>>, <<>> if not called]
    \* ---- ClientHandler and its SocketStream (server.py 239-354)
    sessionRunning, \* self.running
    conn,           \* self.conn: open / closed
    port,           \* self.addr[1]
    client_name,    \* self.client_name
    selected_lang,  \* selected_lang of run (NoLang before the handshake)
    spc,            \* position of the session thread
    payload,        \* what the handshake recv gave
    connects,       \* client_connected emissions
    disconnects,    \* client_disconnected emissions (saturating)
    cleanups,       \* completed calls of cleanup (saturating)
    escaped,        \* an exception left cleanup or read
    recvd,          \* what the last conn.recv of read gave
    ret,            \* what the last read returned
    activity,       \* <<is_active passed to audio_activity.emit>> by the
                    \*   last read (NoActivity: emit was not called)
    stopped,        \* ServerThread.stop has run
    phase,          \* bytes of audio received so far, modulo 2
    late,           \* kinds of the events of the session that were produced
                    \*   after a client_disconnected of the session
    \* ---- ServerThread, its ClientHandlers and ServerApp (server.py 356-604)
    srvRunning,     \* ServerThread.running
    server_socket,  \* ServerThread.server_socket: none / open / closed
    clients,        \* ServerThread.clients, as the handlers' numbers
    lpc,            \* position of the listener thread: socket / bind /
                    \*   test / accept / blocked / start / append /
                    \*   finally / ended
    loopEnd,        \* why the listener left its accept loop (none: it has not)
    accepted,       \* connections accepted so far
    hst,            \* per handler: none / created / unstarted / handshake /
                    \*   run / done
    hrunning,       \* per handler: self.running
    hconn,          \* per handler: its connection, none / open / closed
    hname,          \* per handler: self.client_name
    hcleanups,      \* per handler: calls of cleanup
    produced,       \* per handler: events emitted so far
    queue,          \* events posted to the GUI thread and not yet delivered
    delivered,      \* per handler: the numbers of its events in the order
                    \*   the slots of ServerApp were called with them
    client_widgets, \* ServerApp.client_widgets: its keys
    gpc,            \* GUI thread: events / close / iter / returned
    stopIdx         \* entries of clients the loop of stop() has passed

bufferVars == <<new_sentence, lock, emitted, calls, feed, wpc, arg, word,
                text_to_emit, flushed>>
streamerVars == <<running, muted, sock, p, stream, pc, update_counter, res,
                  trace, gap, lastGap, errorEmits, finishedEmits, lastExc,
                  quiesced, lateEvents, framesAfterStop, slept, data, level,
                  frameNo, handled, hs>>
frameVars == <<data, level, frameNo, handled>>
sessionVars == <<sessionRunning, conn, port, client_name, selected_lang, spc,
                 payload, connects, disconnects, cleanups, escaped, recvd, ret,
                 activity, stopped, phase, late>>
serverVars == <<srvRunning, server_socket, clients, lpc, loopEnd, accepted,
                hst, hrunning, hconn, hname, hcleanups, produced, queue,
                delivered, client_widgets, gpc, stopIdx>>
vars == <<bufferVars, streamerVars, sessionVars, serverVars>>

Min(a, b) == IF a < b THEN a ELSE b

(***************************************************************************)
(* Part I: SentenceBuffer                                                  *)
(***************************************************************************)

\* ------------------------------------------------------------- characters
\* str.isspace
IsSpace(c) == c \in {" ", "\t", "\n"}

Lower == {"a", "d", "e", "f", "h", "i", "k", "l", "n", "o", "r", "s", "t", "w"}
Upper == {"A", "D", "E", "F", "H", "I", "K", "L", "N", "O", "R", "S", "T", "W"}
Digits == {"0", "1", "2"}

\* str.isalnum of one character
IsAlnum(c) == c \in Lower \cup Upper \cup Digits

\* str.upper of one character: a cased letter maps to its capital, every other
\* character (digit, punctuation, capital) to itself.
ToUpper(c) ==
    CASE c = "a" -> "A" [] c = "d" -> "D" [] c = "e" -> "E" [] c = "f" -> "F"
      [] c = "h" -> "H" [] c = "i" -> "I" [] c = "k" -> "K" [] c = "l" -> "L"
      [] c = "n" -> "N" [] c = "o" -> "O" [] c = "r" -> "R" [] c = "s" -> "S"
      [] c = "t" -> "T" [] c = "w" -> "W"
      [] OTHER -> c

\* ---------------------------------------------------------------- str ops
RECURSIVE LStrip(_)
LStrip(s) == IF s # <<>> /\ IsSpace(Head(s)) THEN LStrip(Tail(s)) ELSE s

RECURSIVE RStrip(_)
RStrip(s) ==
    IF s # <<>> /\ IsSpace(s[Len(s)]) THEN RStrip(SubSeq(s, 1, Len(s) - 1)) ELSE s

\* word.strip()
StripIdentity(s) == s
Strip(s) == RStrip(LStrip(s))

\* word.endswith(('.', '!', '?'))
EndsSentenceDotOnly(w) == w # <<>> /\ w[Len(w)] = "."
EndsSentence(w) == w # <<>> /\ w[Len(w)] \in {".", "!", "?"}

\* no_space_punct
no_space_punct_short == {<<".">>, <<",">>, <<"!">>, <<"?">>}
no_space_punct ==
    {<<".">>, <<",">>, <<"!">>, <<"?">>, <<":">>, <<";">>, <<")">>, <<"]">>,
     <<"}">>, <<"\"">>}

\* lines 80-81: the capitalization of a stripped, non-empty word
CapitalizeNever(ns, w) == w
Capitalize(ns, w) ==
    IF ns /\ Len(w) > 0 /\ IsAlnum(w[1]) THEN <<ToUpper(w[1])>> \o Tail(w) ELSE w

\* lines 91-93: the prefix of a stripped, capitalized word
Prefix(w) == IF w \in no_space_punct \/ w[1] = "'" THEN <<>> ELSE <<" ">>

\* ---------------------------------------------------------------- threads
Threads == {"t1", "t2"}
None == "None"

\* `with self.lock`: the lock can be taken
LockIgnored(t) == TRUE
CanAcquire(t) == lock = None

\* ------------------------------------------------------------------ words
hello == <<"h", "e", "l", "l", "o">>
world == <<"w", "o", "r", "l", "d">>
dot == <<".">>
its == <<"i", "t", "'", "s">>
fine == <<"f", "i", "n", "e">>
HelloTokens == <<hello, world, dot, its, fine>>

\* The words a script is drawn from: a plain word, a word padded with
\* whitespace that ends a sentence, the bare terminators, punctuation inside
\* and outside no_space_punct, an apostrophe suffix, a digit-led word, an
\* ellipsis, a blank word and the empty word.
Words ==
    { hello, <<" ", "o", "k", "!", "\n">>, dot, <<"?">>, <<",">>, <<"\"">>,
      <<"(">>, <<"'", "s">>, <<"1", "a">>, <<".", ".", ".">>, <<" ", "\t">>,
      <<>> }

RECURSIVE SeqsUpTo(_, _)
SeqsUpTo(S, n) ==
    IF n = 0 THEN {<<>>}
    ELSE LET shorter == SeqsUpTo(S, n - 1)
         IN shorter \cup {Append(s, x) : s \in shorter, x \in S}

Scripts == SeqsUpTo(Words, MaxWords) \cup {HelloTokens}

\* ------------------------------------------------------ SentenceBuffer init
\* __init__ (lines 68-72), with the script the engine is going to deliver
InitBuffer ==
    /\ new_sentence = TRUE
    /\ lock = None
    /\ emitted = <<>>
    /\ calls = <<>>
    /\ feed \in Scripts
    /\ wpc = [t \in Threads |-> "idle"]
    /\ arg = [t \in Threads |-> <<>>]
    /\ word = [t \in Threads |-> <<>>]
    /\ text_to_emit = [t \in Threads |-> <<>>]
    /\ flushed = FALSE

\* handle_transcript line 258: a thread calls buffer.add_word(word) and
\* reaches `with self.lock`
Deliver(t) ==
    /\ wpc[t] = "idle"
    /\ feed # <<>>
    /\ arg' = [arg EXCEPT ![t] = Head(feed)]
    /\ word' = [word EXCEPT ![t] = Head(feed)]
    /\ feed' = Tail(feed)
    /\ wpc' = [wpc EXCEPT ![t] = "wait"]
    /\ UNCHANGED <<new_sentence, lock, emitted, calls, text_to_emit, flushed>>
    /\ UNCHANGED <<streamerVars, sessionVars, serverVars>>

\* add_word lines 75-100: take the lock, strip, return on an empty word
\* (releasing the lock), else capitalize and build text_to_emit
Acquire(t) ==
    /\ wpc[t] = "wait"
    /\ CanAcquire(t)
    /\ calls' = Append(calls, arg[t])
    /\ LET w == Strip(word[t])
       IN IF w = <<>>
          THEN /\ wpc' = [wpc EXCEPT ![t] = "idle"]
               /\ word' = [word EXCEPT ![t] = <<>>]
               /\ arg' = [arg EXCEPT ![t] = <<>>]
               /\ UNCHANGED <<lock, text_to_emit>>
          ELSE LET c == Capitalize(new_sentence, w)
               IN /\ lock' = t
                  /\ word' = [word EXCEPT ![t] = c]
                  /\ text_to_emit' = [text_to_emit EXCEPT ![t] = Prefix(c) \o c]
                  /\ wpc' = [wpc EXCEPT ![t] = "emit"]
                  /\ UNCHANGED arg
    /\ UNCHANGED <<new_sentence, emitted, feed, flushed>>
    /\ UNCHANGED <<streamerVars, sessionVars, serverVars>>

\* add_word line 102: signals.new_transcript.emit(client_name, text_to_emit)
Emit(t) ==
    /\ wpc[t] = "emit"
    /\ emitted' = Append(emitted, [word |-> arg[t], text |-> text_to_emit[t]])
    /\ wpc' = [wpc EXCEPT ![t] = "update"]
    /\ UNCHANGED <<new_sentence, lock, calls, feed, arg, word, text_to_emit, flushed>>
    /\ UNCHANGED <<streamerVars, sessionVars, serverVars>>

\* add_word lines 106-109: update new_sentence, leave the `with` block
Update(t) ==
    /\ wpc[t] = "update"
    /\ new_sentence' = EndsSentence(word[t])
    /\ lock' = IF lock = t THEN None ELSE lock
    /\ wpc' = [wpc EXCEPT ![t] = "idle"]
    /\ arg' = [arg EXCEPT ![t] = <<>>]
    /\ word' = [word EXCEPT ![t] = <<>>]
    /\ text_to_emit' = [text_to_emit EXCEPT ![t] = <<>>]
    /\ UNCHANGED <<emitted, calls, feed, flushed>>
    /\ UNCHANGED <<streamerVars, sessionVars, serverVars>>

\* force_flush lines 111-112: `pass`; called by ClientHandler.cleanup
\* (line 346) from any thread, without the lock
ForceFlushResets ==
    /\ flushed' = TRUE
    /\ new_sentence' = TRUE
    /\ UNCHANGED <<lock, emitted, calls, feed, wpc, arg, word, text_to_emit>>
    /\ UNCHANGED <<streamerVars, sessionVars, serverVars>>
ForceFlush ==
    /\ flushed' = TRUE
    /\ UNCHANGED <<new_sentence, lock, emitted, calls, feed, wpc, arg, word,
                   text_to_emit>>
    /\ UNCHANGED <<streamerVars, sessionVars, serverVars>>

NextBuffer ==
    \/ \E t \in Threads : Deliver(t)
    \/ \E t \in Threads : Acquire(t)
    \/ \E t \in Threads : Emit(t)
    \/ \E t \in Threads : Update(t)
    \/ ForceFlush

(***************************************************************************)
(* Part II: AudioStreamer                                                  *)
(***************************************************************************)

\* ------------------------------------------------------------- exceptions
NoExc == [origin |-> "none", cls |-> "none"]

\* socket.error is OSError; BrokenPipeError and ConnectionResetError are
\* subclasses of it. "Exception" stands for every class outside OSError
\* (ValueError, TypeError, OverflowError, ...).
OSErrorFamily == {"OSError", "BrokenPipeError", "ConnectionResetError"}

\* What each call of the try block can raise.  The socket calls raise the
\* OSError family; the PortAudio calls (PyAudio(), p.open, stream.read) raise
\* OSError (pyaudio's IOError) as well as ValueError; np.frombuffer raises
\* ValueError; every call can raise some other exception.
Raises(origin) ==
    CASE origin \in {"connect", "handshake", "send"} -> OSErrorFamily \cup {"Exception"}
      [] origin \in {"open", "read"} -> {"OSError", "Exception"}
      [] origin = "level" -> {"Exception"}

\* line 136: except (socket.error, BrokenPipeError, ConnectionResetError)
CaughtAsNetwork(cls) == cls \in OSErrorFamily

\* -------------------------------------------------------------- _cleanup
Resources == {"stream", "p", "sock"}

\* The handles as records [stream, p, sock] of "is not None"
Handles == [stream |-> stream, p |-> p, sock |-> sock]

\* The release calls of _cleanup in the order they are made; a call is made
\* only for a handle that is held.
ReleaseOrder(call) ==
    CASE call = "stop_stream" -> 1 [] call = "stream_close" -> 1
      [] call = "terminate" -> 2 [] call = "sock_close" -> 3 [] call = "none" -> 4
OrderOf(r) == CASE r = "stream" -> 1 [] r = "p" -> 2 [] r = "sock" -> 3

\* The release call that raises during one _cleanup, or "none"
FailPoints(h) ==
    {"none"} \cup (IF h.stream THEN {"stop_stream", "stream_close"} ELSE {})
             \cup (IF h.p THEN {"terminate"} ELSE {})
             \cup (IF h.sock THEN {"sock_close"} ELSE {})

\* lines 150-159: a held resource is released when its release calls are
\* reached and return; the first call that raises skips the rest
ResAfterCleanup(h, r0, failAt) ==
    [r \in Resources |->
        IF h[r]
        THEN IF OrderOf(r) < ReleaseOrder(failAt) THEN "released" ELSE "leaked"
        ELSE r0[r]]

\* lines 158-159, except Exception: pass: no exception of a release call
\* leaves _cleanup
Escapes(failAt) == FALSE

\* _cleanup, lines 149-163, from handles h and resources r0; the handles are
\* reset in the finally clause, whatever the release calls did
CleanupResetsInTry(h, r0, failAt) ==
    /\ res' = ResAfterCleanup(h, r0, failAt)
    /\ stream' = (h.stream /\ failAt # "none")
    /\ p' = (h.p /\ failAt # "none")
    /\ sock' = (h.sock /\ failAt # "none")
CleanupKeepsSock(h, r0, failAt) ==
    /\ res' = ResAfterCleanup(h, r0, failAt)
    /\ stream' = FALSE
    /\ p' = FALSE
    /\ sock' = h.sock
Cleanup(h, r0, failAt) ==
    /\ res' = ResAfterCleanup(h, r0, failAt)
    /\ stream' = FALSE
    /\ p' = FALSE
    /\ sock' = FALSE

\* ------------------------------------------------------------ bookkeeping
Bump(n) == Min(n + 1, MaxCount)

RECURSIVE Count(_, _)
Count(s, x) ==
    IF s = <<>> THEN 0 ELSE (IF Head(s) = x THEN 1 ELSE 0) + Count(Tail(s), x)

\* The trace is closed by the first successful connect, or by the connect
\* attempt after the MaxCount-th.
Rec(tr, ev) ==
    IF tr # <<>> /\ tr[Len(tr)] \in {"ok", "end"} THEN tr
    ELSE IF ev = "connect" /\ Count(tr, "connect") >= MaxCount THEN Append(tr, "end")
    ELSE Append(tr, ev)

\* A step of the _run thread: a call of the thread returns (or raises)
Returned == quiesced' = (quiesced \/ ~running)
Late(ev) == lateEvents' = IF quiesced THEN lateEvents \cup {ev} ELSE lateEvents

\* ------------------------------------------------- frames and their level
\* Samples of one frame (CHUNK_SIZE, line 56, scaled down)
FrameSamples == 2
\* int16 sample values the device delivers
Samples16 == {-32768, 0, 32767}
\* stream.read, line 123, returns one frame of paInt16 samples
DeviceFrames == [1..FrameSamples -> Samples16]
NoLevel == <<>>

Wrap16(n) == ((n + 32768) % 65536) - 32768
\* np.abs of an int16 array, line 128: the result is int16
Abs16(x) == Wrap16(IF x < 0 THEN -x ELSE x)
MaxOf(S) == CHOOSE x \in S : \A y \in S : y <= x
\* line 128: amplitude = np.max(np.abs(audio_data))
Amplitude(d) == MaxOf({Abs16(d[i]) : i \in 1..Len(d)})
\* line 130: level = min(1.0, amplitude / 32768.0), in units of 1/32768
Level(d) == Min(32768, Amplitude(d))
\* line 125: a level is emitted with the frame that makes update_counter even
LevelDue == (update_counter + 1) % 2 = 0
\* line 133: if not self.muted
WritesAlways == TRUE
Writes == ~muted
\* The capture loop is left: no frame is in hand
NoFrame ==
    /\ data' = <<>> /\ level' = NoLevel /\ frameNo' = 0 /\ handled' = <<>>

\* ------------------------------------------------------------------- init
\* __init__, lines 67-78
InitStreamer ==
    /\ running = FALSE
    /\ muted = FALSE
    /\ sock = FALSE
    /\ p = FALSE
    /\ stream = FALSE
    /\ pc = "new"
    /\ update_counter = 0
    /\ res = [r \in Resources |-> "none"]
    /\ trace = <<>>
    /\ gap = <<>>
    /\ lastGap = <<>>
    /\ errorEmits = 0
    /\ finishedEmits = 0
    /\ lastExc = NoExc
    /\ quiesced = FALSE
    /\ lateEvents = {}
    /\ framesAfterStop = 0
    /\ slept = 0
    /\ data = <<>>
    /\ level = NoLevel
    /\ frameNo = 0
    /\ handled = <<>>
    /\ hs = 0

\* ------------------------------------------------------- GUI-thread calls
\* start(), lines 80-82; called once per AudioStreamer (start_stream, 428-434)
Start ==
    /\ pc = "new"
    /\ running' = TRUE
    /\ pc' = "head"
    /\ UNCHANGED <<muted, sock, p, stream, update_counter, res, trace, gap,
                   lastGap, errorEmits, finishedEmits, lastExc, quiesced,
                   lateEvents, framesAfterStop>>
    /\ UNCHANGED <<bufferVars, sessionVars, serverVars, slept, hs, frameVars>>

\* stop(), lines 84-85; reached from toggle_stream (409-414) once started
Stop ==
    /\ pc # "new"
    /\ running' = FALSE
    /\ UNCHANGED <<muted, sock, p, stream, pc, update_counter, res, trace, gap,
                   lastGap, errorEmits, finishedEmits, lastExc, quiesced,
                   lateEvents, framesAfterStop>>
    /\ UNCHANGED <<bufferVars, sessionVars, serverVars, slept, hs, frameVars>>

\* set_mute(muted), lines 87-88
SetMute(m) ==
    /\ pc # "new"
    /\ muted' = m
    /\ UNCHANGED <<running, sock, p, stream, pc, update_counter, res, trace, gap,
                   lastGap, errorEmits, finishedEmits, lastExc, quiesced,
                   lateEvents, framesAfterStop>>
    /\ UNCHANGED <<bufferVars, sessionVars, serverVars, slept, hs, frameVars>>

\* ---------------------------------------------------------- _run, 90-147
\* line 91
retry_delay == 5

\* lines 136-144: the except clauses, entered by a raise at `origin` with
\* the handles h and the resources r0
HandlerBreaks(origin, cls, h, r0) ==
    /\ lastExc' = [origin |-> origin, cls |-> cls]
    /\ IF CaughtAsNetwork(cls)
       THEN /\ trace' = Rec(trace, "fail")
            /\ UNCHANGED errorEmits
       ELSE /\ trace' = Rec(trace, "fatal")
            /\ errorEmits' = Bump(errorEmits)
    /\ pc' = "final"
    /\ stream' = h.stream /\ p' = h.p /\ sock' = h.sock /\ res' = r0
    /\ UNCHANGED gap
HandlerNoCleanup(origin, cls, h, r0) ==
    /\ lastExc' = [origin |-> origin, cls |-> cls]
    /\ stream' = h.stream /\ p' = h.p /\ sock' = h.sock /\ res' = r0
    /\ UNCHANGED gap
    /\ IF CaughtAsNetwork(cls)
       THEN /\ trace' = Rec(trace, "fail")
            /\ pc' = "retry_sleep"
            /\ UNCHANGED errorEmits
       ELSE /\ errorEmits' = Bump(errorEmits)
            /\ trace' = Rec(trace, "fatal")
            /\ pc' = "final"
Handler(origin, cls, h, r0) ==
    /\ lastExc' = [origin |-> origin, cls |-> cls]
    /\ IF CaughtAsNetwork(cls)
       THEN \* 137-138: status, _cleanup; then the sleep of line 139
            /\ \E failAt \in FailPoints(h) :
                  /\ Cleanup(h, r0, failAt)
                  /\ pc' = IF Escapes(failAt) THEN "crashed" ELSE "retry_sleep"
            /\ gap' = Append(gap, "cleanup")
            /\ trace' = Rec(Rec(trace, "fail"), "cleanup")
            /\ UNCHANGED errorEmits
       ELSE \* 143-144: error_occurred, break
            /\ errorEmits' = Bump(errorEmits)
            /\ trace' = Rec(trace, "fatal")
            /\ pc' = "final"
            /\ stream' = h.stream /\ p' = h.p /\ sock' = h.sock /\ res' = r0
            /\ UNCHANGED gap

\* line 93, then lines 95-98 and the call of connect at line 100
HeadTest == running

LoopHead ==
    /\ pc = "head"
    /\ Returned
    /\ IF HeadTest
       THEN /\ sock' = TRUE
            /\ res' = [res EXCEPT !["sock"] = "open"]
            /\ trace' = Rec(trace, "connect")
            /\ lastGap' = gap
            /\ gap' = <<>>
            /\ lateEvents' = IF quiesced \/ ~running
                              THEN lateEvents \cup {"connect"} ELSE lateEvents
            /\ pc' = "connect"
       ELSE /\ pc' = "final"
            /\ UNCHANGED <<sock, res, trace, lastGap, gap, lateEvents>>
    /\ hs' = IF HeadTest THEN 0 ELSE hs
    /\ UNCHANGED <<running, muted, p, stream, update_counter, errorEmits,
                   finishedEmits, lastExc, framesAfterStop>>
    /\ UNCHANGED <<bufferVars, sessionVars, serverVars, slept, frameVars>>

\* line 100 returns; line 101
ConnectReturns ==
    /\ pc = "connect"
    /\ Returned
    /\ trace' = Rec(trace, "ok")
    /\ pc' = "handshake"
    /\ UNCHANGED <<running, muted, sock, p, stream, update_counter, res, gap,
                   lastGap, errorEmits, finishedEmits, lastExc, lateEvents,
                   framesAfterStop>>
    /\ UNCHANGED <<bufferVars, sessionVars, serverVars, slept, hs, frameVars>>

\* line 100 (or 101) raises
ConnectRaises(cls) ==
    /\ pc = "connect"
    /\ cls \in Raises("connect")
    /\ Returned
    /\ Handler("connect", cls, Handles, res)
    /\ UNCHANGED <<running, muted, update_counter, lastGap, finishedEmits,
                   lateEvents, framesAfterStop>>
    /\ UNCHANGED <<bufferVars, sessionVars, serverVars, slept, hs, frameVars>>

\* lines 104-105 are run on every connection, with no condition
HandshakeOnFirstOnly == slept = 0
SendsHandshake == TRUE

\* lines 104-105: the handshake is sent
Handshake ==
    /\ pc = "handshake"
    /\ Returned
    /\ Late("handshake")
    /\ hs' = IF SendsHandshake THEN Bump(hs) ELSE hs
    /\ pc' = "delay"
    /\ UNCHANGED <<running, muted, sock, p, stream, update_counter, res, trace,
                   gap, lastGap, errorEmits, finishedEmits, lastExc,
                   framesAfterStop>>
    /\ UNCHANGED <<bufferVars, sessionVars, serverVars, slept, frameVars>>

\* line 105 raises
HandshakeRaises(cls) ==
    /\ pc = "handshake"
    /\ cls \in Raises("handshake")
    /\ Returned
    /\ Handler("handshake", cls, Handles, res)
    /\ UNCHANGED <<running, muted, update_counter, lastGap, finishedEmits,
                   lateEvents, framesAfterStop>>
    /\ UNCHANGED <<bufferVars, sessionVars, serverVars, slept, hs, frameVars>>

\* line 106: time.sleep(0.1) returns
Delay ==
    /\ pc = "delay"
    /\ Returned
    /\ pc' = "open"
    /\ UNCHANGED <<running, muted, sock, p, stream, update_counter, res, trace,
                   gap, lastGap, errorEmits, finishedEmits, lastExc, lateEvents,
                   framesAfterStop>>
    /\ UNCHANGED <<bufferVars, sessionVars, serverVars, slept, hs, frameVars>>

\* lines 109-120: PyAudio(), p.open, status, update_counter = 0
OpenDevice ==
    /\ pc = "open"
    /\ Returned
    /\ Late("open")
    /\ p' = TRUE
    /\ stream' = TRUE
    /\ res' = [res EXCEPT !["p"] = "open", !["stream"] = "open"]
    /\ update_counter' = 0
    /\ frameNo' = 0
    /\ handled' = <<>>
    /\ pc' = "inner"
    /\ UNCHANGED <<running, muted, sock, trace, gap, lastGap, errorEmits,
                   finishedEmits, lastExc, framesAfterStop, data, level>>
    /\ UNCHANGED <<bufferVars, sessionVars, serverVars, slept, hs>>

\* line 109 raises (self.p not yet assigned), or line 110 raises (self.p
\* assigned, self.stream not)
OpenRaises(cls, pAssigned) ==
    /\ pc = "open"
    /\ cls \in Raises("open")
    /\ Returned
    /\ IF pAssigned
       THEN Handler("open", cls, [Handles EXCEPT !.p = TRUE],
                    [res EXCEPT !["p"] = "open"])
       ELSE Handler("open", cls, Handles, res)
    /\ UNCHANGED <<running, muted, update_counter, lastGap, finishedEmits,
                   lateEvents, framesAfterStop>>
    /\ UNCHANGED <<bufferVars, sessionVars, serverVars, slept, hs, frameVars>>

\* line 122
InnerIgnoresRunning == TRUE
InnerTest == running

Inner ==
    /\ pc = "inner"
    /\ Returned
    /\ IF InnerTest
       THEN pc' = "read" /\ handled' = <<>> /\ UNCHANGED <<data, level, frameNo>>
       ELSE pc' = "head" /\ NoFrame
    /\ UNCHANGED <<running, muted, sock, p, stream, update_counter, res, trace,
                   gap, lastGap, errorEmits, finishedEmits, lastExc, lateEvents,
                   framesAfterStop>>
    /\ UNCHANGED <<bufferVars, sessionVars, serverVars, slept, hs>>

\* lines 123-131: stream.read returns, update_counter += 1, the level is
\* emitted on every second frame
ReadFrame ==
    /\ pc = "read"
    /\ Returned
    /\ \E d \in DeviceFrames :
          /\ data' = d
          /\ level' = IF LevelDue THEN <<Level(d)>> ELSE NoLevel
    /\ update_counter' = (update_counter + 1) % 2
    /\ frameNo' = Bump(frameNo)
    /\ pc' = "send"
    /\ UNCHANGED <<running, muted, sock, p, stream, res, trace, gap, lastGap,
                   errorEmits, finishedEmits, lastExc, lateEvents,
                   framesAfterStop, handled>>
    /\ UNCHANGED <<bufferVars, sessionVars, serverVars, slept, hs>>

\* line 123 raises, or (on every second frame) lines 128-131 raise
ReadRaises(origin, cls) ==
    /\ pc = "read"
    /\ origin \in {"read", "level"}
    /\ origin = "level" => LevelDue
    /\ cls \in Raises(origin)
    /\ Returned
    /\ Handler(origin, cls, Handles, res)
    /\ update_counter' = IF origin = "level" THEN (update_counter + 1) % 2
                         ELSE update_counter
    /\ NoFrame
    /\ UNCHANGED <<running, muted, lastGap, finishedEmits, lateEvents,
                   framesAfterStop>>
    /\ UNCHANGED <<bufferVars, sessionVars, serverVars, slept, hs>>

\* lines 133-134: the frame is written unless muted
SendFrame ==
    /\ pc = "send"
    /\ Returned
    /\ IF Writes
       THEN /\ Late("frame")
            /\ framesAfterStop' = IF running THEN framesAfterStop
                                  ELSE Bump(framesAfterStop)
       ELSE UNCHANGED <<lateEvents, framesAfterStop>>
    /\ handled' = << [no |-> frameNo, data |-> data, muted |-> muted,
                      level |-> level # NoLevel,
                      sent |-> IF Writes THEN <<data>> ELSE <<>>] >>
    /\ data' = <<>>
    /\ level' = NoLevel
    /\ UNCHANGED frameNo
    /\ pc' = "inner"
    /\ UNCHANGED <<running, muted, sock, p, stream, update_counter, res, trace,
                   gap, lastGap, errorEmits, finishedEmits, lastExc>>
    /\ UNCHANGED <<bufferVars, sessionVars, serverVars, slept, hs>>

\* line 134 raises
SendRaises(cls) ==
    /\ pc = "send"
    /\ ~muted
    /\ cls \in Raises("send")
    /\ Returned
    /\ Handler("send", cls, Handles, res)
    /\ NoFrame
    /\ UNCHANGED <<running, muted, update_counter, lastGap, finishedEmits,
                   lateEvents, framesAfterStop>>
    /\ UNCHANGED <<bufferVars, sessionVars, serverVars, slept, hs>>

\* line 139: time.sleep(retry_delay) returns; line 140: continue
RetrySleep ==
    /\ pc = "retry_sleep"
    /\ Returned
    /\ gap' = Append(gap, "sleep")
    /\ trace' = Rec(trace, "sleep")
    /\ slept' = retry_delay
    /\ pc' = "head"
    /\ UNCHANGED <<running, muted, sock, p, stream, update_counter, res, lastGap,
                   errorEmits, finishedEmits, lastExc, lateEvents, framesAfterStop>>
    /\ UNCHANGED <<bufferVars, sessionVars, serverVars, hs, frameVars>>

\* lines 146-147: the last _cleanup, finished
Final ==
    /\ pc = "final"
    /\ Returned
    /\ \E failAt \in FailPoints(Handles) :
          /\ Cleanup(Handles, res, failAt)
          /\ IF Escapes(failAt)
             THEN pc' = "crashed" /\ UNCHANGED finishedEmits
             ELSE pc' = "done" /\ finishedEmits' = Bump(finishedEmits)
    /\ gap' = Append(gap, "cleanup")
    /\ trace' = Rec(trace, "cleanup")
    /\ UNCHANGED <<running, muted, update_counter, lastGap, errorEmits, lastExc,
                   lateEvents, framesAfterStop>>
    /\ UNCHANGED <<bufferVars, sessionVars, serverVars, slept, hs, frameVars>>

ExcClasses == OSErrorFamily \cup {"Exception"}

ThreadStep ==
    \/ LoopHead
    \/ ConnectReturns
    \/ \E cls \in ExcClasses : ConnectRaises(cls)
    \/ Handshake
    \/ \E cls \in ExcClasses : HandshakeRaises(cls)
    \/ Delay
    \/ OpenDevice
    \/ \E cls \in ExcClasses, pAssigned \in BOOLEAN : OpenRaises(cls, pAssigned)
    \/ Inner
    \/ ReadFrame
    \/ \E origin \in {"read", "level"}, cls \in ExcClasses : ReadRaises(origin, cls)
    \/ SendFrame
    \/ \E cls \in ExcClasses : SendRaises(cls)
    \/ RetrySleep
    \/ Final

NextStreamer ==
    \/ Start
    \/ Stop
    \/ \E m \in BOOLEAN : SetMute(m)
    \/ ThreadStep

(***************************************************************************)
(* Part III: ClientHandler and its SocketStream                            *)
(***************************************************************************)
\* ------------------------------------------------------------ handshake
\* Longest handshake text the client sends
MaxPayload == 3
PayloadChars == {"a", "e", "|", " "}
Ports == {"50001", "50002"}
NoLang == "none"

\* What conn.recv(1024), line 265, gives: bytes that decode as UTF-8 to a
\* text, bytes that do not, or an exception
Payloads ==
    [kind : {"text"}, text : SeqsUpTo(PayloadChars, MaxPayload)]
        \cup [kind : {"undecodable", "error"}, text : {<<>>}]

\* lines 270 and 273: the literal "en"
en == <<"e", "n">>
\* lines 246 and 272: f"Client-{addr[1]}"
FallbackName(pt) == <<"C", "l", "i", "e", "n", "t", "-", pt>>

\* "|" in raw_data, line 266
Contains(s, c) == \E i \in 1..Len(s) : s[i] = c
FirstIndex(s, c) ==
    CHOOSE i \in 1..Len(s) : s[i] = c /\ \A j \in 1..(i - 1) : s[j] # c
SplitAt(s, i) == <<SubSeq(s, 1, i - 1), SubSeq(s, i + 1, Len(s))>>
\* raw_data.split("|", 1), line 267, of a text that contains "|"
SplitLast(s) ==
    SplitAt(s, CHOOSE i \in 1..Len(s) :
                   s[i] = "|" /\ \A j \in (i + 1)..Len(s) : s[j] # "|")
SplitFirst(s) == SplitAt(s, FirstIndex(s, "|"))

\* line 271, except Exception: a failing recv and a failing decode are both
\* recovered from
RecoversDecodeOnly(kind) == kind = "undecodable"
Recovered(kind) == kind \in {"undecodable", "error"}

\* recv on a connection that cleanup has closed raises OSError
HandshakeOutcome ==
    IF conn = "closed" THEN [kind |-> "error", text |-> <<>>] ELSE payload

\* lines 263-273: <<self.client_name, selected_lang>>
Parsed(o, pt) ==
    IF o.kind = "text"
    THEN LET raw_data == Strip(o.text)
         IN IF Contains(raw_data, "|") THEN SplitFirst(raw_data)
            ELSE <<raw_data, en>>
    ELSE <<FallbackName(pt), en>>

\* ----------------------------------------------------- SocketStream.read
\* Largest number of bytes one conn.recv(size) of read returns
MaxChunk == 23
\* Sample values of the audio the client streams
StreamSamples == {0, 100, 32767, -32768}
NoActivity == <<>>

\* The two bytes of an int16 sample, little-endian (pcm_s16le, line 291)
LoByte(v) == (v % 65536) % 256
HiByte(v) == (v % 65536) \div 256
\* Sample number k of the stream: a at every tenth sample, b elsewhere
StreamSample(k, a, b) == IF k % 10 = 0 THEN a ELSE b
\* Byte number n of the stream
StreamByte(n, a, b) ==
    IF n % 2 = 0 THEN LoByte(StreamSample(n \div 2, a, b))
    ELSE HiByte(StreamSample(n \div 2, a, b))
\* A chunk of len bytes that starts ph bytes into a sample
Chunk(len, a, b, ph) == [i \in 1..len |-> StreamByte(ph + i - 1, a, b)]
Chunks(ph) ==
    {Chunk(len, a, b, ph) : len \in 1..MaxChunk, a \in StreamSamples,
                            b \in StreamSamples}

\* What conn.recv(size), line 311, gives
RecvOutcomes ==
    IF conn = "closed" THEN {[kind |-> "error", data |-> <<>>]}
    ELSE [kind : {"data"}, data : Chunks(phase)]
             \cup [kind : {"eof", "error"}, data : {<<>>}]

\* int.from_bytes(data[i:i+2], byteorder='little', signed=True), line 321
FromBytes(lo, hi) ==
    LET u == lo + 256 * hi IN IF u >= 32768 THEN u - 65536 ELSE u
\* lines 319-320: the offsets i that are sampled
Offsets(d) == {i \in 0..(Len(d) - 1) : i % 20 = 0 /\ i + 2 <= Len(d)}
\* A Python int is unbounded. The sum is kept exactly up to 10^9 and as 10^9
\* beyond: it is only compared with 2250 * count, which is far below.
Sat(n) == Min(n, 1000000000)
RECURSIVE SumOver(_, _)
SumOver(d, is) ==
    IF is = {} THEN 0
    ELSE LET i == CHOOSE j \in is : TRUE
             sample == FromBytes(d[i + 1], d[i + 2])
         IN Sat(Sat(sample * sample) + SumOver(d, is \ {i}))
\* lines 317-322
SumSquares(d) == SumOver(d, Offsets(d))
\* line 315: count = len(data) // 2
SampleCount(d) == Len(d) \div 2
\* lines 324-326, for count > 0: sqrt(sum_squares / (count / 10)) > 150,
\* that is sum_squares * 10 > 150 * 150 * count
IsActive(d) == SumSquares(d) > 15 * 150 * SampleCount(d)

\* line 330, except Exception, around the receive and the activity block
ReadCatchesEmitOnly(origin) == origin = "emit"
ReadCatches(origin) == origin \in {"recv", "emit"}

\* Where read raises, for receive outcome r: "recv", "emit" or "none"
ReadRaisesAt(r, emitRaises) ==
    IF r.kind = "error" THEN "recv"
    ELSE IF r.kind = "data" /\ SampleCount(r.data) > 0 /\ emitRaises THEN "emit"
    ELSE "none"

\* is_active as passed to audio_activity.emit, line 327
ActivityOf(r) ==
    IF r.kind = "data" /\ SampleCount(r.data) > 0 THEN <<IsActive(r.data)>>
    ELSE NoActivity

\* lines 312, 329 and 331: what read returns
ReturnOf(r, emitRaises) ==
    IF ReadRaisesAt(r, emitRaises) = "none" THEN r.data ELSE <<>>

\* ------------------------------------------------------------------- init
NoRecv == [kind |-> "none", data |-> <<>>, phase |-> 0]

\* __init__, lines 241-249, for an accepted connection; payload is what the
\* client has sent as its handshake
InitSessionWith(pls, pts) ==
    /\ sessionRunning = TRUE
    /\ conn = "open"
    /\ port \in pts
    /\ client_name = FallbackName(port)
    /\ selected_lang = NoLang
    /\ spc = "handshake"
    /\ payload \in pls
    /\ connects = <<>>
    /\ disconnects = 0
    /\ cleanups = 0
    /\ escaped = {}
    /\ recvd = NoRecv
    /\ ret = <<>>
    /\ activity = NoActivity
    /\ stopped = FALSE
    /\ phase = 0
    /\ late = {}

\* An event of kind k is produced: it is late after a client_disconnected
Produce(k) == late' = IF disconnects >= 1 THEN late \cup {k} ELSE late

\* ---------------------------------------------------------- run, 260-340
\* lines 263-279: the handshake, buffer.client_name, client_connected, log
RecvHandshake ==
    /\ spc = "handshake"
    /\ LET o == HandshakeOutcome
       IN /\ payload' = o
          /\ IF o.kind = "text" \/ Recovered(o.kind)
             THEN /\ client_name' = Parsed(o, port)[1]
                  /\ selected_lang' = Parsed(o, port)[2]
                  /\ connects' = Append(connects, Parsed(o, port))
                  /\ Produce("connected")
                  /\ spc' = "bind"
             ELSE \* lines 337-338: the outer except, then finally
                  /\ spc' = "cleanup"
                  /\ UNCHANGED <<client_name, selected_lang, connects, late>>
    /\ UNCHANGED <<sessionRunning, conn, port, disconnects, cleanups, escaped,
                   recvd, ret, activity, stopped, phase>>
    /\ UNCHANGED <<bufferVars, streamerVars, serverVars>>

\* lines 282-335: the adapter is built, bound to the SocketStream and run
Bind ==
    /\ spc = "bind"
    /\ spc' = "run"
    /\ UNCHANGED <<sessionRunning, conn, port, client_name, selected_lang,
                   payload, connects, disconnects, cleanups, escaped, recvd,
                   ret, activity, stopped, phase, late>>
    /\ UNCHANGED <<bufferVars, streamerVars, serverVars>>

\* one of lines 282-334 raises: lines 337-338, then finally
BindRaises ==
    /\ spc = "bind"
    /\ spc' = "cleanup"
    /\ UNCHANGED <<sessionRunning, conn, port, client_name, selected_lang,
                   payload, connects, disconnects, cleanups, escaped, recvd,
                   ret, activity, stopped, phase, late>>
    /\ UNCHANGED <<bufferVars, streamerVars, serverVars>>

\* lines 309-331: one read(size) called by the running adapter
Read ==
    /\ spc = "run"
    /\ \E r \in RecvOutcomes, emitRaises \in BOOLEAN :
          LET origin == ReadRaisesAt(r, emitRaises)
          IN /\ recvd' = [kind |-> r.kind, data |-> r.data, phase |-> phase]
             /\ activity' = ActivityOf(r)
             /\ IF ActivityOf(r) # NoActivity THEN Produce("activity")
                ELSE UNCHANGED late
             /\ phase' = (phase + Len(r.data)) % 2
             /\ IF origin # "none" /\ ~ReadCatches(origin)
                THEN /\ escaped' = escaped \cup {"read"}
                     /\ ret' = <<>>
                     /\ spc' = "cleanup"
                ELSE /\ ret' = ReturnOf(r, emitRaises)
                     /\ spc' = IF ReturnOf(r, emitRaises) = <<>> THEN "drain"
                               ELSE "run"
                     /\ UNCHANGED escaped
    /\ UNCHANGED <<sessionRunning, conn, port, client_name, selected_lang,
                   payload, connects, disconnects, cleanups, stopped>>
    /\ UNCHANGED <<bufferVars, streamerVars, serverVars>>

\* line 335 returns (after an empty read, or when the engine ends the
\* session) or raises; lines 337-338
AdapterEndsNoFinally ==
    /\ spc \in {"run", "drain"}
    /\ spc' = "done"
    /\ UNCHANGED <<sessionRunning, conn, port, client_name, selected_lang,
                   payload, connects, disconnects, cleanups, escaped, recvd,
                   ret, activity, stopped, phase, late>>
    /\ UNCHANGED <<bufferVars, streamerVars, serverVars>>
AdapterEnds ==
    /\ spc \in {"run", "drain"}
    /\ spc' = "cleanup"
    /\ UNCHANGED <<sessionRunning, conn, port, client_name, selected_lang,
                   payload, connects, disconnects, cleanups, escaped, recvd,
                   ret, activity, stopped, phase, late>>
    /\ UNCHANGED <<bufferVars, streamerVars, serverVars>>

\* handle_transcript, lines 251-258, called by the running adapter with one
\* result: the whole call of add_word (lines 74-109), made by the session
\* thread alone
WordCallback ==
    /\ spc \in {"run", "drain"}
    /\ feed # <<>>
    /\ feed' = Tail(feed)
    /\ calls' = Append(calls, Head(feed))
    /\ LET w == Strip(Head(feed))
           c == Capitalize(new_sentence, w)
       IN IF w = <<>>
          THEN UNCHANGED <<emitted, new_sentence, late>>
          ELSE /\ emitted' = Append(emitted, [word |-> Head(feed),
                                              text |-> Prefix(c) \o c])
               /\ new_sentence' = EndsSentence(c)
               /\ Produce("word")
    /\ UNCHANGED <<lock, wpc, arg, word, text_to_emit, flushed>>
    /\ UNCHANGED <<sessionRunning, conn, port, client_name, selected_lang, spc,
                   payload, connects, disconnects, cleanups, escaped, recvd,
                   ret, activity, stopped, phase>>
    /\ UNCHANGED <<streamerVars, serverVars>>

\* -------------------------------------------------------- cleanup, 342-354
\* lines 351-354, try: self.conn.close() except: pass
CleanupUnguarded(closeRaises) == closeRaises
CleanupEscapes(closeRaises) == FALSE

CleanupSession(closeRaises) ==
    /\ sessionRunning' = FALSE
    /\ flushed' = TRUE
    /\ disconnects' = Bump(disconnects)
    /\ conn' = "closed"
    /\ escaped' = IF CleanupEscapes(closeRaises) THEN escaped \cup {"cleanup"}
                  ELSE escaped
    /\ cleanups' = Bump(cleanups)
    /\ UNCHANGED <<new_sentence, lock, emitted, calls, feed, wpc, arg, word,
                   text_to_emit>>
    /\ UNCHANGED <<port, client_name, selected_lang, payload, connects, recvd,
                   ret, activity, phase, late>>
    /\ UNCHANGED <<streamerVars, serverVars>>

\* line 340: finally: self.cleanup()
SessionCleanup ==
    /\ spc = "cleanup"
    /\ \E closeRaises \in BOOLEAN : CleanupSession(closeRaises)
    /\ spc' = "done"
    /\ UNCHANGED stopped

\* ServerThread.stop, lines 392-393: client.cleanup() from the GUI thread
StopCleanup ==
    /\ spc # "none"
    /\ ~stopped
    /\ stopped' = TRUE
    /\ \E closeRaises \in BOOLEAN : CleanupSession(closeRaises)
    /\ UNCHANGED spc

SessionStep ==
    \/ RecvHandshake
    \/ Bind
    \/ BindRaises
    \/ Read
    \/ WordCallback
    \/ AdapterEnds
    \/ SessionCleanup

NextHandshake ==
    \/ RecvHandshake
    \/ Bind
    \/ StopCleanup

NextSession ==
    \/ SessionStep
    \/ StopCleanup

(***************************************************************************)
(* Part IV  server.py  ServerThread, its ClientHandlers and ServerApp      *)
(*                                                                         *)
(* Three kinds of thread: the listener (ServerThread.run), one session     *)
(* thread per started ClientHandler, and the GUI thread, which runs the    *)
(* slots of ServerApp and, from closeEvent, ServerThread.stop.  A session  *)
(* is followed from its accept to its end in three steps (Part III has     *)
(* the detail of each).  An event stands for a signal emission together    *)
(* with the log_message the same statement sequence emits after it.        *)
(***************************************************************************)
Sessions == 1..MaxClients

\* line 246: the name a handler has until its handshake announces another
DefaultName(i) == <<"Client", i>>
\* names a client can announce in its handshake
Names == {<<"mic">>}
NamesOf(i) == Names \cup {DefaultName(i)}

\* the k-th of the events handler i emits next, under the name nm
Event(i, k, kind, nm) ==
    [s |-> i, no |-> produced[i] + k, kind |-> kind, name |-> nm]

\* on_client_connect / on_client_disconnect (575-591): the keys of
\* client_widgets after the slot connected to the event has run
Slot(w, ev) ==
    IF ev.kind = "connected" THEN w \cup {ev.name}
    ELSE IF ev.kind = "disconnected" THEN w \ {ev.name}
    ELSE w

\* The connections of lines 406-411 have the default type: an emission from
\* a thread other than the GUI thread is posted to the GUI thread's queue.
EmitQueued(ev) ==
    /\ produced' = [produced EXCEPT ![ev.s] = ev.no]
    /\ queue' = Append(queue, ev)
    /\ UNCHANGED <<delivered, client_widgets>>

\* ... and an emission from the GUI thread itself calls the slot at once.
EmitDirect(ev) ==
    /\ produced' = [produced EXCEPT ![ev.s] = ev.no]
    /\ delivered' = [delivered EXCEPT ![ev.s] = Append(@, ev.no)]
    /\ client_widgets' = Slot(client_widgets, ev)
    /\ UNCHANGED queue

\* The GUI thread, in its event loop, takes the oldest posted event.
DeliverEvent ==
    /\ gpc \in {"events", "returned"}
    /\ queue # <<>>
    /\ delivered' = [delivered EXCEPT ![Head(queue).s] = Append(@, Head(queue).no)]
    /\ client_widgets' = Slot(client_widgets, Head(queue))
    /\ queue' = Tail(queue)
    /\ UNCHANGED <<srvRunning, server_socket, clients, lpc, loopEnd, accepted,
                   hst, hrunning, hconn, hname, hcleanups, produced, gpc,
                   stopIdx>>
    /\ UNCHANGED <<bufferVars, streamerVars, sessionVars>>

\* ---- the listener thread (ServerThread.run, 365-386)
listenerFrame == <<srvRunning, clients, accepted, hst, hrunning, hconn, hname,
                   hcleanups, produced, queue, delivered, client_widgets, gpc,
                   stopIdx>>

\* 366-367
CreateSocket ==
    /\ lpc = "socket"
    /\ server_socket' = "open"
    /\ lpc' = "bind"
    /\ UNCHANGED <<listenerFrame, loopEnd>>
    /\ UNCHANGED <<bufferVars, streamerVars, sessionVars>>

\* 369-371, and 382-383 when bind or listen raises (the port is taken, or
\* stop() has closed the socket already)
BindListen ==
    /\ lpc = "bind"
    /\ \E raises \in BOOLEAN :
         IF raises \/ server_socket = "closed"
         THEN /\ lpc' = "finally"
              /\ loopEnd' = IF server_socket = "closed" THEN "stop" ELSE "bind"
         ELSE lpc' = "test" /\ UNCHANGED loopEnd
    /\ UNCHANGED <<listenerFrame, server_socket>>
    /\ UNCHANGED <<bufferVars, streamerVars, sessionVars>>

\* 373
LoopTest ==
    /\ lpc = "test"
    /\ IF srvRunning
       THEN lpc' = "accept" /\ UNCHANGED loopEnd
       ELSE lpc' = "finally" /\ loopEnd' = "stop"
    /\ UNCHANGED <<listenerFrame, server_socket>>
    /\ UNCHANGED <<bufferVars, streamerVars, sessionVars>>

\* 375: accept is called; on a socket stop() has closed already it raises
\* OSError at once (380-381), otherwise the call waits for a connection
AcceptCall ==
    /\ lpc = "accept"
    /\ IF server_socket = "closed"
       THEN lpc' = "finally" /\ loopEnd' = "stop"
       ELSE lpc' = "blocked" /\ UNCHANGED loopEnd
    /\ UNCHANGED <<listenerFrame, server_socket>>
    /\ UNCHANGED <<bufferVars, streamerVars, sessionVars>>

\* 375-376: the waiting accept returns a connection and a handler is
\* constructed for it (241-249).  close() by another thread does not end a
\* call of accept that is already waiting on every platform: where it does
\* not, the call goes on waiting and returns the next connection.
Accept ==
    /\ lpc = "blocked"
    /\ accepted < MaxClients
    /\ accepted' = accepted + 1
    /\ hst' = [hst EXCEPT ![accepted + 1] = "created"]
    /\ hrunning' = [hrunning EXCEPT ![accepted + 1] = TRUE]
    /\ hconn' = [hconn EXCEPT ![accepted + 1] = "open"]
    /\ hname' = [hname EXCEPT ![accepted + 1] = DefaultName(accepted + 1)]
    /\ lpc' = "start"
    /\ UNCHANGED <<srvRunning, server_socket, clients, loopEnd, hcleanups,
                   produced, queue, delivered, client_widgets, gpc, stopIdx>>
    /\ UNCHANGED <<bufferVars, streamerVars, sessionVars>>

\* 375, 380-381: the waiting accept raises OSError: by itself, or (where the
\* platform does so) because stop() has closed the listening socket
AcceptRaises ==
    /\ lpc = "blocked"
    /\ lpc' = "finally"
    /\ loopEnd' = IF server_socket = "closed" THEN "stop" ELSE "accept"
    /\ UNCHANGED <<listenerFrame, server_socket>>
    /\ UNCHANGED <<bufferVars, streamerVars, sessionVars>>

\* 377-378: the session thread is started, or Thread.start raises
\* RuntimeError (the thread cannot be created); except OSError (380) is the
\* only handler inside the loop, so that the RuntimeError leaves the loop
\* for the handler of lines 382-383
StartThread ==
    /\ lpc = "start"
    /\ \E raises \in BOOLEAN :
         IF raises
         THEN /\ hst' = [hst EXCEPT ![accepted] = "unstarted"]
              /\ lpc' = "finally"
              /\ loopEnd' = "start"
         ELSE /\ hst' = [hst EXCEPT ![accepted] = "handshake"]
              /\ lpc' = "append"
              /\ UNCHANGED loopEnd
    /\ UNCHANGED <<srvRunning, server_socket, clients, accepted, hrunning,
                   hconn, hname, hcleanups, produced, queue, delivered,
                   client_widgets, gpc, stopIdx>>
    /\ UNCHANGED <<bufferVars, streamerVars, sessionVars>>

\* 379
AppendClient ==
    /\ lpc = "append"
    /\ clients' = Append(clients, accepted)
    /\ lpc' = "test"
    /\ UNCHANGED <<srvRunning, server_socket, loopEnd, accepted, hst, hrunning,
                   hconn, hname, hcleanups, produced, queue, delivered,
                   client_widgets, gpc, stopIdx>>
    /\ UNCHANGED <<bufferVars, streamerVars, sessionVars>>

\* 384-386
ListenerFinally ==
    /\ lpc = "finally"
    /\ server_socket' = IF server_socket = "none" THEN "none" ELSE "closed"
    /\ lpc' = "ended"
    /\ UNCHANGED <<listenerFrame, loopEnd>>
    /\ UNCHANGED <<bufferVars, streamerVars, sessionVars>>

\* ---- a session thread (ClientHandler.run, 260-340)
\* 261-279: the handshake gives the session its name (the default one when
\* nothing usable was received) and client_connected is emitted
SessionHandshake(i) ==
    /\ hst[i] = "handshake"
    /\ \E nm \in NamesOf(i) :
         /\ hconn[i] = "closed" => nm = DefaultName(i)
         /\ hname' = [hname EXCEPT ![i] = nm]
         /\ EmitQueued(Event(i, 1, "connected", nm))
    /\ hst' = [hst EXCEPT ![i] = "run"]
    /\ UNCHANGED <<srvRunning, server_socket, clients, lpc, loopEnd, accepted,
                   hrunning, hconn, hcleanups, gpc, stopIdx>>
    /\ UNCHANGED <<bufferVars, streamerVars, sessionVars>>

\* 251-258 and 309-331: while the adapter runs, new_transcript and
\* audio_activity are emitted
SessionEmits(i) ==
    /\ hst[i] = "run"
    /\ produced[i] <= MaxSessionWords
    /\ EmitQueued(Event(i, 1, "word", hname[i]))
    /\ UNCHANGED <<srvRunning, server_socket, clients, lpc, loopEnd, accepted,
                   hst, hrunning, hconn, hname, hcleanups, gpc, stopIdx>>
    /\ UNCHANGED <<bufferVars, streamerVars, sessionVars>>

\* 282-354: the adapter returns or raises (or could not be set up), the
\* exception is logged, and the finally clause calls cleanup
SessionEnds(i) ==
    /\ hst[i] = "run"
    /\ hst' = [hst EXCEPT ![i] = "done"]
    /\ hrunning' = [hrunning EXCEPT ![i] = FALSE]
    /\ EmitQueued(Event(i, 1, "disconnected", hname[i]))
    /\ hconn' = [hconn EXCEPT ![i] = "closed"]
    /\ hcleanups' = [hcleanups EXCEPT ![i] = Min(MaxCount, @ + 1)]
    /\ UNCHANGED <<srvRunning, server_socket, clients, lpc, loopEnd, accepted,
                   hname, gpc, stopIdx>>
    /\ UNCHANGED <<bufferVars, streamerVars, sessionVars>>

\* ---- the GUI thread in ServerThread.stop (388-393), called by closeEvent
\* 389
StopBegin ==
    /\ gpc = "events"
    /\ srvRunning' = FALSE
    /\ gpc' = "close"
    /\ UNCHANGED <<server_socket, clients, lpc, loopEnd, accepted, hst,
                   hrunning, hconn, hname, hcleanups, produced, queue,
                   delivered, client_widgets, stopIdx>>
    /\ UNCHANGED <<bufferVars, streamerVars, sessionVars>>

\* 390-391
StopClose ==
    /\ gpc = "close"
    /\ server_socket' = IF server_socket = "none" THEN "none" ELSE "closed"
    /\ gpc' = "iter"
    /\ UNCHANGED <<srvRunning, clients, lpc, loopEnd, accepted, hst, hrunning,
                   hconn, hname, hcleanups, produced, queue, delivered,
                   client_widgets, stopIdx>>
    /\ UNCHANGED <<bufferVars, streamerVars, sessionVars>>

\* 392-393: the list iterator takes the next entry the list has now, and
\* cleanup (342-354) runs in the GUI thread
StopIter ==
    /\ gpc = "iter"
    /\ IF stopIdx < Len(clients)
       THEN /\ stopIdx' = stopIdx + 1
            /\ hrunning' = [hrunning EXCEPT ![clients[stopIdx + 1]] = FALSE]
            /\ EmitDirect(Event(clients[stopIdx + 1], 1, "disconnected",
                                hname[clients[stopIdx + 1]]))
            /\ hconn' = [hconn EXCEPT ![clients[stopIdx + 1]] = "closed"]
            /\ hcleanups' = [hcleanups EXCEPT ![clients[stopIdx + 1]] =
                                Min(MaxCount, @ + 1)]
            /\ UNCHANGED gpc
       ELSE /\ gpc' = "returned"
            /\ UNCHANGED <<stopIdx, hrunning, hconn, hcleanups, produced,
                           queue, delivered, client_widgets>>
    /\ UNCHANGED <<srvRunning, server_socket, clients, lpc, loopEnd, accepted,
                   hst, hname>>
    /\ UNCHANGED <<bufferVars, streamerVars, sessionVars>>

ListenerStep ==
    \/ CreateSocket
    \/ BindListen
    \/ LoopTest
    \/ AcceptCall
    \/ Accept
    \/ AcceptRaises
    \/ StartThread
    \/ AppendClient
    \/ ListenerFinally

\* The steps of the listener thread that do not wait for a peer.
ListenerRuns ==
    \/ CreateSocket
    \/ BindListen
    \/ LoopTest
    \/ AcceptCall
    \/ StartThread
    \/ AppendClient
    \/ ListenerFinally

SessionThreadStep ==
    \E i \in Sessions :
        \/ SessionHandshake(i)
        \/ SessionEmits(i)
        \/ SessionEnds(i)

StopStep ==
    \/ StopBegin
    \/ StopClose
    \/ StopIter

NextServer ==
    \/ ListenerStep
    \/ SessionThreadStep
    \/ StopStep
    \/ DeliverEvent

(***************************************************************************)
(* Specifications                                                          *)
(***************************************************************************)
\* The buffer of a session that is delivered no word.
BufferIdle ==
    /\ new_sentence = TRUE /\ lock = None /\ emitted = <<>> /\ calls = <<>>
    /\ feed = <<>> /\ flushed = FALSE
    /\ wpc = [t \in Threads |-> "idle"]
    /\ arg = [t \in Threads |-> <<>>]
    /\ word = [t \in Threads |-> <<>>]
    /\ text_to_emit = [t \in Threads |-> <<>>]

\* No connection has been accepted.
NoSession ==
    /\ sessionRunning = FALSE /\ conn = "closed" /\ port = "none"
    /\ client_name = <<>> /\ selected_lang = NoLang /\ spc = "none"
    /\ payload = [kind |-> "text", text |-> <<>>]
    /\ connects = <<>> /\ disconnects = 0 /\ cleanups = 0 /\ escaped = {}
    /\ recvd = NoRecv /\ ret = <<>> /\ activity = NoActivity
    /\ stopped = FALSE /\ phase = 0 /\ late = {}

\* ServerThread.__init__ (359-363) and ServerApp.__init__ (397-400).
ServerConstructed ==
    /\ srvRunning = TRUE /\ server_socket = "none" /\ clients = <<>>
    /\ loopEnd = "none" /\ accepted = 0
    /\ hst = [i \in Sessions |-> "none"]
    /\ hrunning = [i \in Sessions |-> FALSE]
    /\ hconn = [i \in Sessions |-> "none"]
    /\ hname = [i \in Sessions |-> <<>>]
    /\ hcleanups = [i \in Sessions |-> 0]
    /\ produced = [i \in Sessions |-> 0]
    /\ queue = <<>>
    /\ delivered = [i \in Sessions |-> <<>>]
    /\ client_widgets = {}
    /\ gpc = "events" /\ stopIdx = 0

\* The listener thread is not considered.
NoServer == ServerConstructed /\ lpc = "off"

\* One SentenceBuffer fed by the delivering threads; no client is started.
InitB == InitBuffer /\ InitStreamer /\ NoSession /\ NoServer
SpecBuffer == InitB /\ [][NextBuffer]_vars

\* One AudioStreamer with its GUI thread.
InitS == InitStreamer /\ BufferIdle /\ NoSession /\ NoServer
SpecStreamer == InitS /\ [][NextStreamer]_vars

\* The _run thread is scheduled, and each of its blocking calls returns or
\* raises: connect within its 10 s timeout, the sleeps after their delay.
SpecStreamerFair == SpecStreamer /\ WF_vars(ThreadStep)

\* The handshake of one accepted connection, for every payload a client can
\* send and with stop() of the listener at any moment.
InitH ==
    InitSessionWith(Payloads, Ports) /\ BufferIdle /\ InitStreamer /\ NoServer
SpecHandshake == InitH /\ [][NextHandshake]_vars

\* One session from its handshake to its end, with stop() of the listener
\* at any moment.
SessionPayloads == {[kind |-> "text", text |-> <<"a", "|", "e">>]}
\* The buffer of a session whose engine is going to deliver one word.
BufferFed ==
    /\ new_sentence = TRUE /\ lock = None /\ emitted = <<>> /\ calls = <<>>
    /\ feed = <<hello>> /\ flushed = FALSE
    /\ wpc = [t \in Threads |-> "idle"]
    /\ arg = [t \in Threads |-> <<>>]
    /\ word = [t \in Threads |-> <<>>]
    /\ text_to_emit = [t \in Threads |-> <<>>]
InitC ==
    /\ InitSessionWith(SessionPayloads, {"50001"}) /\ BufferFed
    /\ InitStreamer /\ NoServer
SpecSession == InitC /\ [][NextSession]_vars

\* The listener started by ServerApp.__init__ (414-416), the sessions it
\* accepts, the event loop of the GUI thread and one closeEvent.
InitL ==
    /\ ServerConstructed /\ lpc = "socket"
    /\ BufferIdle /\ InitStreamer /\ NoSession
SpecServer == InitL /\ [][NextServer]_vars

\* The listener thread and the GUI thread are scheduled; a call of accept
\* that waits may wait for ever.
SpecServerFair == SpecServer /\ WF_vars(ListenerRuns) /\ WF_vars(StopStep)

\* The session thread is scheduled: the finally clause of run is executed.
SpecSessionFair == SpecSession /\ WF_vars(SessionCleanup)

(***************************************************************************)
(* Properties of SentenceBuffer (SpecBuffer)                               *)
(***************************************************************************)
Texts == [i \in 1..Len(emitted) |-> emitted[i].text]
AllIdle == \A t \in Threads : wpc[t] = "idle"
\* No call is between its emission and its state update.
Quiescent == \A t \in Threads : wpc[t] \in {"idle", "wait"}
Terminators == {".", "!", "?"}
LastChar(s) == s[Len(s)]

\* The fragments the specification lists for the hello script.
ListedFragments ==
    << <<" ", "H", "e", "l", "l", "o">>, <<" ", "w", "o", "r", "l", "d">>,
       <<".">>, <<" ", "i", "t", "'", "s">>, <<" ", "f", "i", "n", "e">> >>

\* The same with the token after the full stop capitalized.
HelloFragments ==
    << <<" ", "H", "e", "l", "l", "o">>, <<" ", "w", "o", "r", "l", "d">>,
       <<".">>, <<" ", "I", "t", "'", "s">>, <<" ", "f", "i", "n", "e">> >>

\* C1 as stated: the calls add_word("hello"), ("world"), ("."), ("it's"),
\* ("fine") on a fresh buffer emit exactly " Hello", " world", ".", " it's",
\* " fine".
C1_AsStated == (calls = HelloTokens /\ AllIdle) => Texts = ListedFragments

\* C1 amended: the calls add_word("hello"), ("world"), ("."), ("it's"),
\* ("fine") on a fresh buffer emit exactly " Hello", " world", ".", " It's",
\* " fine", one event per call: after the first n calls, the first n fragments.
C1_HelloWorld ==
    \A n \in 0..Len(HelloTokens) :
        (calls = SubSeq(HelloTokens, 1, n) /\ Quiescent)
            => Texts = SubSeq(HelloFragments, 1, n)

C1_Witness == calls = HelloTokens /\ AllIdle /\ Len(emitted) = 5

\* The tokens the specification lists as taking no leading space.
ClaimNoSpace ==
    {<<".">>, <<",">>, <<"!">>, <<"?">>, <<":">>, <<";">>, <<")">>, <<"]">>,
     <<"}">>, <<"\"">>}

\* C2: every emitted fragment is the trimmed token (its first character
\* possibly capitalized) with no leading space when the token is one of
\* . , ! ? : ; ) ] } " or starts with an apostrophe, and with exactly one
\* leading space otherwise.
C2_Spacing ==
    \A i \in 1..Len(emitted) :
        LET w == Strip(emitted[i].word)
            f == emitted[i].text
        IN /\ w # <<>>
           /\ IF w \in ClaimNoSpace \/ w[1] = "'"
              THEN /\ Len(f) = Len(w)
                   /\ f[1] \in {w[1], ToUpper(w[1])}
                   /\ Tail(f) = Tail(w)
              ELSE /\ Len(f) = Len(w) + 1
                   /\ f[1] = " "
                   /\ f[2] \in {w[1], ToUpper(w[1])}
                   /\ Tail(Tail(f)) = Tail(w)

C2_Witness ==
    /\ \E i \in 1..Len(emitted) : emitted[i].text = <<"\"">>
    /\ \E i \in 1..Len(emitted) : emitted[i].text = <<"'", "s">>
    /\ \E i \in 1..Len(emitted) : emitted[i].text = <<" ", "(">>

\* The fragment without its prefix.
BodyOf(e) ==
    LET w == Strip(e.word)
    IN SubSeq(e.text, Len(e.text) - Len(w) + 1, Len(e.text))

\* C3: a token emitted right after a fragment that ends in . ! or ? has its
\* first character upper-cased when that character is alphanumeric.
C3_CapitalAfterTerminator ==
    \A i \in 2..Len(emitted) :
        LET w == Strip(emitted[i].word)
        IN (LastChar(emitted[i - 1].text) \in Terminators /\ IsAlnum(w[1]))
              => /\ BodyOf(emitted[i])[1] = ToUpper(w[1])
                 /\ Tail(BodyOf(emitted[i])) = Tail(w)

C3_Witness ==
    \E i \in 2..Len(emitted) :
        /\ LastChar(emitted[i - 1].text) = "?"
        /\ emitted[i].word = hello
        /\ emitted[i].text = <<" ", "H", "e", "l", "l", "o">>

\* C4: whenever no call is between its emission and its update, new_sentence
\* is true iff nothing has been emitted yet or the last emitted fragment ends
\* in . ! or ? -- whatever was emitted before it and however many force_flush
\* calls were made.
C4_NewSentenceIsLastChar ==
    Quiescent =>
        (new_sentence <=>
            (emitted = <<>> \/ LastChar(emitted[Len(emitted)].text) \in Terminators))

C4_Witness ==
    /\ AllIdle /\ flushed /\ Len(emitted) >= 2 /\ ~new_sentence
    /\ LastChar(emitted[1].text) \in Terminators

IsBlank(s) == \A i \in 1..Len(s) : IsSpace(s[i])

\* C5: a call of add_word with an empty or all-whitespace token returns
\* without emitting and without changing new_sentence.
C5_BlankIsDiscarded ==
    [][\A t \in Threads :
          (wpc[t] = "wait" /\ wpc'[t] # "wait" /\ IsBlank(arg[t]))
             => (wpc'[t] = "idle" /\ emitted' = emitted
                 /\ new_sentence' = new_sentence)]_vars

C5_Witness ==
    /\ AllIdle /\ Len(calls) >= 2 /\ calls[Len(calls)] = <<" ", "\t">>
    /\ Len(emitted) = Len(calls) - 1 /\ ~new_sentence

\* add_word executed one call at a time on the arguments ws, from the state
\* ns: the fragments emitted and the state left.
RECURSIVE SeqRun(_, _, _)
SeqRun(ws, ns, out) ==
    IF ws = <<>> THEN [new_sentence |-> ns, texts |-> out]
    ELSE LET w == Strip(Head(ws))
         IN IF w = <<>> THEN SeqRun(Tail(ws), ns, out)
            ELSE LET c == Capitalize(ns, w)
                 IN SeqRun(Tail(ws), EndsSentence(c), Append(out, Prefix(c) \o c))

EmittedWords == [i \in 1..Len(emitted) |-> emitted[i].word]

\* C6: with overlapping calls, the fragments emitted are those of running the
\* calls one at a time in emission order, each call seeing the new_sentence
\* the one before it left; and no two calls are inside add_word at once.
C6_CallsAreAtomic ==
    /\ Texts = SeqRun(EmittedWords, TRUE, <<>>).texts
    /\ Quiescent => new_sentence = SeqRun(EmittedWords, TRUE, <<>>).new_sentence
    /\ Cardinality({t \in Threads : wpc[t] \in {"emit", "update"}}) <= 1

C6_Witness ==
    \E t, u \in Threads :
        /\ wpc[t] = "update" /\ wpc[u] = "wait" /\ Len(emitted) >= 2
        /\ Strip(arg[u]) # <<>> /\ IsAlnum(Strip(arg[u])[1])
        /\ LastChar(word[t]) \in Terminators /\ ~new_sentence

(***************************************************************************)
(* Properties of AudioStreamer (SpecStreamer, SpecStreamerFair)            *)
(***************************************************************************)
\* A network error: a connection reset, a broken pipe or a socket failure
\* raised by one of the socket calls.
IsNetworkError(e) ==
    /\ e.origin \in {"connect", "handshake", "send"}
    /\ e.cls \in {"ConnectionResetError", "BrokenPipeError", "OSError"}

RECURSIVE ExpectedTrace(_)
ExpectedTrace(n) ==
    IF n = 0 THEN <<"connect", "ok">>
    ELSE <<"connect", "fail", "cleanup", "sleep">> \o ExpectedTrace(n - 1)

\* C7: when the first N connect attempts fail with a network error and the
\* next one succeeds, the client has made exactly N+1 connect attempts, and
\* between two consecutive attempts exactly one cleanup followed by exactly
\* one retry delay of 5 s: the events up to the first success are
\* (connect fail cleanup sleep)^N connect ok.
C7_RetryUntilConnected ==
    (trace # <<>> /\ trace[Len(trace)] = "ok")
        => /\ trace = ExpectedTrace(Count(trace, "fail"))
           /\ Count(trace, "fail") > 0 => slept = 5

C7_Witness ==
    /\ running /\ pc = "handshake"
    /\ trace = ExpectedTrace(2)
    /\ lastExc.origin = "connect" /\ IsNetworkError(lastExc)

\* C8: a network error never ends the loop -- the loop is left only after
\* stop() or an exception that is no network error -- and is followed by a
\* cleanup that leaves every handle None, then the retry delay, then (unless
\* stop() is called) another connect attempt.
C8_NetworkErrorIsRetried ==
    /\ [](pc \in {"final", "done"}
            => (~running \/ (lastExc # NoExc /\ ~IsNetworkError(lastExc))))
    /\ [](pc = "retry_sleep" => (~sock /\ ~p /\ ~stream))
    /\ ((pc = "retry_sleep" /\ IsNetworkError(lastExc))
            ~> (~running \/ (pc = "connect" /\ lastGap = <<"cleanup", "sleep">>)))

C8_Witness ==
    /\ running /\ pc = "connect" /\ lastGap = <<"cleanup", "sleep">>
    /\ lastExc = [origin |-> "send", cls |-> "BrokenPipeError"]
    /\ Count(trace, "connect") >= 2

\* C9: an exception raised in the loop that is no network error is fatal:
\* error_occurred is emitted once and the loop is left, with no retry delay
\* and no further connect attempt.
C9_NonNetworkIsFatal ==
    (lastExc # NoExc /\ ~IsNetworkError(lastExc))
        => (pc \in {"final", "done"} /\ errorEmits = 1)

HandlesNone == ~sock /\ ~p /\ ~stream

\* C11: _cleanup is total and idempotent: whatever it holds (nothing, the
\* socket only, everything) and whichever release call raises, it returns
\* normally with sock, p and stream all None; and a _cleanup that finds them
\* all None leaves them None and changes no resource.
C11_CleanupTotalIdempotent ==
    /\ [](pc # "crashed")
    /\ [](pc \in {"retry_sleep", "done"} => HandlesNone)
    /\ [][(pc = "final" /\ pc' # pc /\ HandlesNone)
             => (pc' = "done" /\ HandlesNone' /\ res' = res)]_vars

C11_Witness ==
    /\ pc = "done"
    /\ Count(gap, "cleanup") = 2
    /\ res = [stream |-> "released", p |-> "leaked", sock |-> "leaked"]
    /\ HandlesNone

\* C31: whenever a connect attempt begins (the loop test of line 93 is passed
\* and line 97 creates a socket), sock, p and stream are all None, after any
\* sequence of failures and retries.
C31_AttemptStartsWithNothingHeld ==
    [][(pc = "head" /\ pc' = "connect") => HandlesNone]_vars

\* A connect attempt has begun after an attempt that had acquired everything.
C31_Witness ==
    /\ pc = "connect"
    /\ res["stream"] = "released" /\ res["p"] = "released"
    /\ res["sock"] = "open"
    /\ lastGap = <<"cleanup", "sleep">>

\* C32: after _cleanup has returned, every resource that had been acquired
\* (capture stream, audio instance, socket) has really been released, also
\* when the release of an earlier one raised.
\* A resource whose own release call raised is not counted: of the resources
\* left unreleased, none comes after another one in the order of release.
C32_CleanupReleasesEverything ==
    pc \in {"retry_sleep", "done"}
        => \A r, r2 \in Resources :
              (res[r] = "leaked" /\ OrderOf(r) < OrderOf(r2))
                  => res[r2] # "leaked"

\* C19: while streaming, a frame is written to the socket exactly when muted
\* is false at the moment it is handled, and what is written then is that
\* frame; a muted frame is dropped for good, and the loop goes on to the next
\* device read; a level is emitted for every second frame read, muted or not.
C19_MuteGatesTransmissionOnly ==
    /\ [](handled # <<>> =>
            LET h == handled[1]
            IN /\ (h.sent # <<>>) <=> ~h.muted
               /\ h.sent \in {<<>>, <<h.data>>}
               /\ h.no < MaxCount => (h.level <=> (h.no % 2 = 0)))
    /\ [][(pc = "send" /\ pc' # pc /\ muted)
             => (pc' = "inner" /\ handled'[1].sent = <<>>)]_vars
    /\ [][(pc = "inner" /\ pc' # pc /\ running)
             => (pc' = "read" /\ frameNo' = frameNo)]_vars

C19_Witness ==
    /\ pc = "inner" /\ handled # <<>>
    /\ handled[1].no = 2 /\ handled[1].muted /\ handled[1].level
    /\ handled[1].sent = <<>>

AbsExact(x) == IF x < 0 THEN -x ELSE x
\* The peak absolute amplitude of frame d
Peak(d) == MaxOf({AbsExact(d[i]) : i \in 1..Len(d)})

\* C20: every audio_level emitted lies in [0, 1] and is the peak absolute
\* amplitude of its frame divided by 32768, capped at 1 (levels are held in
\* units of 1/32768).
C20_LevelIsNormalizedPeak ==
    level # NoLevel
        => (level[1] \in 0..32768 /\ level[1] = Min(32768, Peak(data)))

\* C26: on every connection the handshake is written once, before any
\* audio; a frame that is written is the frame just captured, so frames go
\* out in capture order; and after a reconnect the handshake is written
\* again on the new socket before any audio.
C26_HandshakeOncePerConnection ==
    /\ [](hs <= 1)
    /\ [](pc \in {"delay", "open", "inner", "read", "send"} => hs = 1)
    /\ [](pc \in {"connect", "handshake"} => hs = 0)
    /\ [][(handled' # handled /\ handled' # <<>> /\ handled'[1].sent # <<>>)
             => (hs = 1 /\ handled'[1].sent = <<data>>
                        /\ handled'[1].no = frameNo)]_vars
    /\ [][frameNo' >= frameNo \/ frameNo' = 0]_vars

C26_Witness ==
    /\ slept = retry_delay /\ hs = 1 /\ pc = "inner"
    /\ handled # <<>> /\ handled[1].sent # <<>> /\ handled[1].no = 2

\* C30: whenever the thread has ended and emitted finished, running is
\* False, after a stop() and after a fatal error alike.
C30_FinishedImpliesNotRunning ==
    (pc = "done" /\ finishedEmits >= 1) => ~running

(***************************************************************************)
(* Properties of ClientHandler (SpecHandshake, SpecSession)                *)
(***************************************************************************)
\* C12: after cleanup has been called once or twice (by stop() of the
\* listener, by the end of the session, or by both) the session is in the
\* same released state -- running False, socket closed -- and no call of
\* cleanup has raised.
C12_CleanupTwiceSameState ==
    /\ cleanups >= 1 => (~sessionRunning /\ conn = "closed")
    /\ "cleanup" \notin escaped

C12_Witness ==
    /\ cleanups = 2 /\ stopped /\ spc = "done"
    /\ ~sessionRunning /\ conn = "closed"

\* The handshake has been read, and it was the text t
HandshakeRead(t) ==
    spc # "handshake" /\ payload.kind = "text" /\ payload.text = t

\* C13: for a handshake text whose trimmed form holds no "|", the name is
\* the trimmed text and the language "en"; for one that holds "|", the name
\* is what stands before the first "|" and the language what stands after.
C13_HandshakeParse ==
    (spc # "handshake" /\ payload.kind = "text")
        => LET t == Strip(payload.text)
           IN IF \A i \in 1..Len(t) : t[i] # "|"
              THEN client_name = t /\ selected_lang = <<"e", "n">>
              ELSE /\ t = client_name \o <<"|">> \o selected_lang
                   /\ \A i \in 1..Len(client_name) : client_name[i] # "|"

C13_Witness ==
    /\ HandshakeRead(<<"a", "|", "|">>)
    /\ client_name = <<"a">> /\ selected_lang = <<"|">>

\* C14: an empty handshake payload (no byte, or whitespace only) gives the
\* session the name "Client-<port>" and the language "en".
C14_EmptyPayloadFallsBack ==
    (spc # "handshake" /\ payload.kind = "text" /\ Strip(payload.text) = <<>>)
        => (client_name = FallbackName(port) /\ selected_lang = en)

\* C15: whatever the handshake read gives -- a text, well-formed or not,
\* undecodable bytes, nothing, or an exception -- the session emits
\* client_connected once, with its name and language, and goes on to bind
\* and run the adapter; it never goes from the handshake to its cleanup.
C15_HandshakeNeverRejects ==
    /\ spc \in {"handshake", "bind", "run"}
    /\ spc # "handshake" => connects = << <<client_name, selected_lang>> >>

C15_Witness ==
    /\ spc = "run" /\ payload.kind = "error" /\ ~stopped
    /\ connects = << <<FallbackName(port), en>> >>

FullScale == {32767, -32768}
\* The last read received a chunk of a stream whose samples are all in S
ChunkOf(S) ==
    /\ recvd.kind = "data"
    /\ \E a \in S, b \in S :
          recvd.data = Chunk(Len(recvd.data), a, b, recvd.phase)

\* C16: a received chunk of all-zero samples makes read emit is_active =
\* False and a chunk of full-scale samples makes it emit is_active = True,
\* whatever the length of the chunk.
C16_SilenceAndFullScale ==
    /\ ChunkOf({0}) => activity = <<FALSE>>
    /\ ChunkOf(FullScale) => activity = <<TRUE>>

\* C17: no exception leaves read: when the receive fails (the connection
\* reset, or closed by a cleanup of another thread) or meets the end of the
\* stream, read returns the empty byte string, after which the adapter
\* reads no more.
C17_ReadNeverRaises ==
    /\ "read" \notin escaped
    /\ recvd.kind \in {"error", "eof"} => (ret = <<>> /\ spc # "run")

C17_Witness ==
    /\ recvd.kind = "error" /\ ret = <<>> /\ spc = "drain"
    /\ stopped /\ conn = "closed" /\ escaped = {}

\* C18: whenever the receive returns a non-empty chunk, read returns exactly
\* those bytes, whatever is_active is and whatever happens while it is
\* computed and emitted.
C18_ActivityNeverGatesAudio ==
    recvd.kind = "data" => ret = recvd.data

\* C23: every session performs cleanup when it ends, whatever ends it (the
\* adapter returns or raises, the adapter cannot be set up, the socket is
\* closed or fails): run is left through its finally clause only, the
\* cleanup then takes place, and afterwards running is False, the buffer has
\* been flushed, client_disconnected has been emitted and the socket is
\* closed.
C23_EverySessionCleansUp ==
    /\ [](spc = "done" => (/\ cleanups >= 1 /\ ~sessionRunning /\ flushed
                           /\ disconnects >= 1 /\ conn = "closed"))
    /\ [][(spc \in {"handshake", "bind", "run", "drain"} /\ spc' # spc)
             => spc' \in {"bind", "run", "drain", "cleanup"}]_vars
    /\ ((spc = "cleanup") ~> (spc = "done"))

C23_Witness ==
    /\ spc = "done" /\ ~stopped /\ cleanups = 1
    /\ recvd = NoRecv /\ connects # <<>> /\ emitted = <<>>

\* C27: for every received chunk of at least 2 bytes, is_active is emitted
\* as True exactly when the sum of the squares of the sampled values (at
\* offsets 0, 20, 40, ...) exceeds 150^2 times the number of sampled values.
C27_ActiveIffSampledRmsOver150 ==
    (recvd.kind = "data" /\ Len(recvd.data) >= 2)
        => activity = << SumSquares(recvd.data)
                            > 150 * 150 * Cardinality(Offsets(recvd.data)) >>

\* C28: at most one client_disconnected is emitted for a session, and
\* exactly one once its thread has ended.
C28_OneDisconnectedPerSession ==
    /\ disconnects <= 1
    /\ spc = "done" => disconnects = 1

\* C29: no word event and no activity event of a session is produced
\* before its client_connected or after its client_disconnected.
C29_EventsBetweenConnectAndDisconnect ==
    /\ "word" \notin late /\ "activity" \notin late
    /\ (emitted # <<>> \/ activity # NoActivity) => connects # <<>>

(***************************************************************************)
(* Properties of ServerThread and ServerApp (SpecServer)                   *)
(***************************************************************************)
\* Handlers whose session thread has been started.
Started == {i \in Sessions : hst[i] \in {"handshake", "run", "done"}}
\* The handlers in ServerThread.clients.
Listed == {clients[k] : k \in 1..Len(clients)}

\* C21: a failure of one session (its thread cannot be started, or its run
\* ends) never ends the accept loop, which is left only when stop() was
\* called or the listening socket itself failed, and never changes the
\* listener or the running flag, socket or events of another session.
C21_SessionFailureIsolated ==
    /\ [](lpc \in {"finally", "ended"} => loopEnd \in {"stop", "bind", "accept"})
    /\ [][\A i \in Sessions :
            (hst[i] = "run" /\ hst'[i] = "done")
                => /\ lpc' = lpc /\ srvRunning' = srvRunning
                   /\ server_socket' = server_socket
                   /\ \A j \in Sessions \ {i} :
                        /\ hst'[j] = hst[j] /\ hrunning'[j] = hrunning[j]
                        /\ hconn'[j] = hconn[j] /\ produced'[j] = produced[j]]_vars

\* C22: once stop() has returned and the listener thread has ended, cleanup
\* has been called on every session that was started.
C22_StopCleansEverySession ==
    (gpc = "returned" /\ lpc = "ended")
        => \A i \in Started : hcleanups[i] >= 1 /\ hconn[i] = "closed"

\* C24: whenever the listener is not between accept and append, its list
\* holds exactly the started sessions whose connection is open; and whenever
\* no event is waiting and stop() has not been called, the registry has one
\* entry per announced session whose connection is open.
C24_OneEntryPerOpenSession ==
    /\ lpc \notin {"start", "append"}
          => /\ Listed = {i \in Started : hconn[i] = "open"}
             /\ Len(clients) = Cardinality(Listed)
    /\ (queue = <<>> /\ gpc = "events")
          => Cardinality(client_widgets)
                = Cardinality({i \in Sessions : hst[i] = "run"})

\* C25: the events of one session reach the slots in the order in which the
\* session produced them.
C25_PerSessionOrder ==
    \A i \in Sessions :
        \A k \in 1..(Len(delivered[i]) - 1) :
            delivered[i][k] < delivered[i][k + 1]

\* C33: once stop() has returned, no further session is spawned, and the
\* listener thread eventually ends with the listening socket closed.
C33_StopEndsListener ==
    /\ [][gpc = "returned" => accepted' = accepted]_vars
    /\ ((gpc = "returned") ~> (lpc = "ended" /\ server_socket = "closed"))

(***************************************************************************)
(* Properties of the handshake, continued (SpecHandshake)                  *)
(***************************************************************************)
\* C34: once the handshake step is over, whatever the payload was, the
\* display name and the language code of the session are non-empty, and the
\* name the connected event carried is the name the session keeps for its
\* later events.
C34_NameAndLanguageNonEmpty ==
    connects # <<>>
        => /\ client_name # <<>>
           /\ selected_lang # <<>>
           /\ connects[Len(connects)] = <<client_name, selected_lang>>
====
